---- MODULE Spec2Model ----
(***************************************************************************)
(* Model of DatabaseManager (src/src/db.py): the MySQL store it owns, the  *)
(* connection's open transaction, and one action per public operation.     *)
(*                                                                         *)
(* The connection is opened with mysql.connector's defaults, so autocommit *)
(* is off: every statement joins the connection's open transaction and is  *)
(* published only by conn.commit().  The tables named after the schema     *)
(* (Orders, OrderItems) hold what the connection sees, its own uncommitted *)
(* writes included; committedOrders / committedOrderItems hold what is     *)
(* durable.  No operation of db.py ever calls rollback.                    *)
(***************************************************************************)
EXTENDS Integers, Sequences, FiniteSets, TLC

\* ---------------------------------------------------------------- bounds
MaxOrders == 1
MaxItems  == 2
MaxLines  == 2
MaxCats   == 2
MaxTime   == 2

\* ------------------------------------------------------- program constants
\* self.current_user_id = None
NoUser == 0

None == "None"

STATUS_FLOW ==
    [ RECEIVED    |-> {"IN_PROGRESS", "CANCELED"},
      IN_PROGRESS |-> {"READY", "CANCELED"},
      READY       |-> {"COMPLETED", "CANCELED"},
      COMPLETED   |-> {},
      CANCELED    |-> {} ]

StatusRows == {"RECEIVED", "IN_PROGRESS", "READY", "COMPLETED", "CANCELED"}

RoleEnum == {"admin", "user"}

ServiceTypeEnum == {"DINE_IN", "TAKEAWAY", "DELIVERY"}

\* os.getenv defaults used by the seeders
DefaultEnv ==
    [ DEFAULT_ADMIN_PASSWORD |-> "admin",
      ADMIN_ACCESS_CODE      |-> "ADMIN123",
      CHEF_ACCESS_CODE       |-> "CHEF123",
      COURIER_ACCESS_CODE    |-> "COURIER123" ]

\* ------------------------------------------------------------ input sets
Usernames  == {"admin", "bob", "eve"}
Passwords  == {"admin", "pw2"}
ItemNames  == {"Margherita", "Coke"}
Prices     == {10, 30}
Quantities == {0, 2}
UserIds    == {1, 2}
ItemIds    == 1 .. MaxItems
OrderIds   == 1 .. MaxOrders
Targets    == StatusRows \cup {"BOGUS"}
LineInputs == [item_id : ItemIds, qty : Quantities]
LineSeqs   == UNION { [1 .. n -> LineInputs] : n \in 0 .. MaxLines }

VARIABLES
    db_open,               \* a DatabaseManager has been constructed
    current_user_id,       \* DatabaseManager.current_user_id
    Users,                 \* user_id -> [username, password_hash, role]
    MenuCategories,        \* category_id -> name
    MenuItems,             \* item_id -> [name, price, category_id, is_active]
    OrderStatusRef,        \* set of status codes
    AppSettings,           \* setting_key -> hash
    Orders,                \* order_id -> row, as the connection sees it
    OrderItems,            \* set of line rows, as the connection sees it
    committedOrders,       \* Orders as of the last commit
    committedOrderItems,   \* OrderItems as of the last commit
    order_seq,             \* Orders AUTO_INCREMENT counter
    item_seq,              \* MenuItems AUTO_INCREMENT counter
    cat_seq,               \* MenuCategories AUTO_INCREMENT counter
    last,                  \* the last call and how it ended
    now,                   \* the database server's clock, in seconds
    sess                   \* connection -> where its running call stands

vars == << db_open, current_user_id, Users, MenuCategories, MenuItems,
           OrderStatusRef, AppSettings, Orders, OrderItems, committedOrders,
           committedOrderItems, order_seq, item_seq, cat_seq, last, now, sess >>

\* ---------------------------------------------------------------- helpers
EmptyFn == [x \in {} |-> None]

Extend(f, k, v) == [x \in (DOMAIN f) \cup {k} |-> IF x = k THEN v ELSE f[x]]

Call(op, id, arg, res) == [op |-> op, id |-> id, arg |-> arg, res |-> res]

\* a call that sets a secret, for the username it may name
CallSecret(op, id, arg, res, name, secret) ==
    [op |-> op, id |-> id, arg |-> arg, res |-> res, name |-> name,
     secret |-> secret]

\* a call that also names its target: an item name or a username
CallNamed(op, id, arg, res, name) ==
    [op |-> op, id |-> id, arg |-> arg, res |-> res, name |-> name]

\* The bytes of a secret that bcrypt works on.  The algorithm takes at most 72
\* bytes of key: bcrypt releases before 5.0 cut a longer secret there.  The
\* two LongSecrets stand for a 72-byte block followed by one more byte, "a" or
\* "b"; every other secret of the model is shorter than 72 bytes.
LongSecrets == {"P72+a", "P72+b"}

bcrypt_key(secret) == IF secret \in LongSecrets THEN "P72" ELSE secret

\* bcrypt.hashpw / bcrypt.checkpw: the hash is not the secret, and it
\* verifies every secret with the key it was made from
hashpw(secret) == << "bcrypt", bcrypt_key(secret) >>

checkpw(secret, hash) == hash[1] = "bcrypt" /\ hash[2] = bcrypt_key(secret)

\* conn.commit(): everything the connection wrote becomes durable
CommitTo(orders, lines) ==
    /\ committedOrders' = orders
    /\ committedOrderItems' = lines

NoCommit == UNCHANGED << committedOrders, committedOrderItems >>

\* ------------------------------------------------------------------ Init
\* An empty MySQL schema, before any DatabaseManager exists.
\* two connections to the same database, and one that runs no call
Connections == {1, 2}

Idle == [pc |-> "idle", step |-> 0, order_id |-> 0, new_status |-> None]

Init ==
    /\ db_open = FALSE
    /\ current_user_id = NoUser
    /\ Users = EmptyFn
    /\ MenuCategories = EmptyFn
    /\ MenuItems = EmptyFn
    /\ OrderStatusRef = {}
    /\ AppSettings = EmptyFn
    /\ Orders = EmptyFn
    /\ OrderItems = {}
    /\ committedOrders = EmptyFn
    /\ committedOrderItems = {}
    /\ order_seq = 0
    /\ item_seq = 0
    /\ cat_seq = 0
    /\ last = Call("none", 0, None, "OK")
    /\ now = 0
    /\ sess = [c \in Connections |-> Idle]

\* --------------------------------------------------------------- startup
AdminIds(users) == {u \in DOMAIN users : users[u].role = "admin"}

HasCategoryNamed(cats, name) == \E c \in DOMAIN cats : cats[c] = name

\* _ensure_schema, migration 1: the General category
EnsureGeneral(cats) ==
    IF HasCategoryNamed(cats, "General") THEN cats
    ELSE Extend(cats, cat_seq + 1, "General")

\* _bootstrap_admin hashing the literal 'admin' instead of the configured
\* DEFAULT_ADMIN_PASSWORD
BootstrapAdminLiteralPassword(users, env) ==
    IF AdminIds(users) = {}
    THEN Extend(users, Cardinality(DOMAIN users) + 1,
                [username |-> "admin",
                 password_hash |-> hashpw("admin"),
                 role |-> "admin"])
    ELSE users

\* _bootstrap_admin
BootstrapAdmin(users, env) ==
    IF AdminIds(users) = {}
    THEN Extend(users, Cardinality(DOMAIN users) + 1,
                [username |-> "admin",
                 password_hash |-> hashpw(env.DEFAULT_ADMIN_PASSWORD),
                 role |-> "admin"])
    ELSE users

\* _bootstrap_statuses
BootstrapStatuses(refs) == IF refs = {} THEN StatusRows ELSE refs

\* _bootstrap_categories: seeds only an empty MenuCategories table
BootstrapCategories(cats, seq) ==
    IF Cardinality(DOMAIN cats) = 0
    THEN Extend(Extend(Extend(cats, seq + 1, "Mains"), seq + 2, "Drinks"),
                seq + 3, "Desserts")
    ELSE cats

\* the access-code seeders writing the configured code over a stored one
SeedSettingOverwrite(settings, key, raw) == Extend(settings, key, hashpw(raw))

\* the SELECT-then-INSERT of the access-code seeders
SeedSetting(settings, key, raw) ==
    IF key \in DOMAIN settings THEN settings ELSE Extend(settings, key, hashpw(raw))

\* _bootstrap_admin_access_code
BootstrapAdminAccessCode(settings, env) ==
    SeedSetting(settings, "admin_access_code_hash", env.ADMIN_ACCESS_CODE)

\* _bootstrap_staff_access_codes
BootstrapStaffAccessCodes(settings, env) ==
    SeedSetting(SeedSetting(settings, "chef_access_code_hash", env.CHEF_ACCESS_CODE),
                "courier_access_code_hash", env.COURIER_ACCESS_CODE)

\* DatabaseManager(): a new connection (the previous connection's open
\* transaction is gone with it), no current user, then _ensure_schema.
Startup(env) ==
    LET cats1 == EnsureGeneral(MenuCategories)
        seq1  == IF cats1 = MenuCategories THEN cat_seq ELSE cat_seq + 1
        cats2 == BootstrapCategories(cats1, seq1)
        seq2  == IF cats2 = cats1 THEN seq1 ELSE seq1 + 3
        nameTaken == /\ AdminIds(Users) = {}
                     /\ \E u \in DOMAIN Users : Users[u].username = "admin"
    IN  /\ HasCategoryNamed(MenuCategories, "General") \/ cat_seq < MaxCats
        /\ current_user_id' = NoUser
        /\ Orders' = committedOrders
        /\ OrderItems' = committedOrderItems
        /\ NoCommit
        /\ UNCHANGED << MenuItems, order_seq, item_seq, now, sess >>
        /\ IF nameTaken
           THEN /\ db_open' = FALSE
                /\ MenuCategories' = cats1
                /\ cat_seq' = seq1
                /\ UNCHANGED << Users, OrderStatusRef, AppSettings >>
                /\ last' = Call("startup", 0, env, "IntegrityError")
           ELSE /\ db_open' = TRUE
                /\ Users' = BootstrapAdmin(Users, env)
                /\ OrderStatusRef' = BootstrapStatuses(OrderStatusRef)
                /\ MenuCategories' = cats2
                /\ cat_seq' = seq2
                /\ AppSettings' = BootstrapStaffAccessCodes(
                                      BootstrapAdminAccessCode(AppSettings, env), env)
                /\ last' = Call("startup", 0, env, "OK")

\* ----------------------------------------------------------- auth / users
set_current_user(user_id) ==
    /\ db_open
    /\ current_user_id' = user_id
    /\ last' = Call("set_current_user", user_id, None, "OK")
    /\ NoCommit
    /\ UNCHANGED << now, sess, db_open, Users, MenuCategories, MenuItems, OrderStatusRef,
                    AppSettings, Orders, OrderItems, order_seq, item_seq, cat_seq >>

UsernameTaken(users, username) == \E u \in DOMAIN users : users[u].username = username

\* create_user's checks without the refusal of role 'admin'
CreateUserResultNoAdminTest(username, role) ==
    IF role \notin RoleEnum THEN "DataError"
    ELSE IF UsernameTaken(Users, username) THEN "USERNAME_TAKEN"
    ELSE "OK"

\* the outcome of create_user's checks and of its INSERT
CreateUserResult(username, role) ==
    IF role = "admin" THEN "ADMINS_NOT_ALLOWED"
    ELSE IF role \notin RoleEnum THEN "DataError"
    ELSE IF UsernameTaken(Users, username) THEN "USERNAME_TAKEN"
    ELSE "OK"

create_user(username, password, role) ==
    LET res == CreateUserResult(username, role)
    IN  /\ db_open
        /\ last' = CallSecret("create_user", Cardinality(DOMAIN Users) + 1, role, res,
                             username, password)
        /\ IF res = "OK"
           THEN /\ Users' = Extend(Users, Cardinality(DOMAIN Users) + 1,
                                   [username |-> username,
                                    password_hash |-> hashpw(password),
                                    role |-> role])
                /\ CommitTo(Orders, OrderItems)
           ELSE /\ UNCHANGED Users
                /\ NoCommit
        /\ UNCHANGED << now, sess, db_open, current_user_id, MenuCategories, MenuItems,
                        OrderStatusRef, AppSettings, Orders, OrderItems,
                        order_seq, item_seq, cat_seq >>

\* change_user_password's checks without the verification of the old password
ChangePasswordResultNoOldTest(user_id, old_password) ==
    IF user_id \notin DOMAIN Users THEN "NO_SUCH_USER" ELSE "OK"

\* the outcome of change_user_password's checks
ChangePasswordResult(user_id, old_password) ==
    IF user_id \notin DOMAIN Users THEN "NO_SUCH_USER"
    ELSE IF ~checkpw(old_password, Users[user_id].password_hash) THEN "WRONG_OLD_PASSWORD"
    ELSE "OK"

change_user_password(user_id, old_password, new_password) ==
    LET res == ChangePasswordResult(user_id, old_password)
    IN  /\ db_open
        /\ last' = CallSecret("change_user_password", user_id, old_password, res,
                             None, new_password)
        /\ IF res = "OK"
           THEN /\ Users' = [Users EXCEPT ![user_id].password_hash = hashpw(new_password)]
                /\ CommitTo(Orders, OrderItems)
           ELSE /\ UNCHANGED Users
                /\ NoCommit
        /\ UNCHANGED << now, sess, db_open, current_user_id, MenuCategories, MenuItems,
                        OrderStatusRef, AppSettings, Orders, OrderItems,
                        order_seq, item_seq, cat_seq >>

\* the result None of the authenticate_* methods
NoAccount == << >>

\* authenticate_user: the account as (user_id, username, role), or None
authenticate_user(username, password) ==
    IF \E u \in DOMAIN Users : Users[u].username = username
    THEN LET u == CHOOSE x \in DOMAIN Users : Users[x].username = username
         IN  IF checkpw(password, Users[u].password_hash)
             THEN << u, Users[u].username, Users[u].role >>
             ELSE NoAccount
    ELSE NoAccount

\* authenticate_admin_password: the admin with the least user_id
authenticate_admin_password(password) ==
    IF AdminIds(Users) = {} THEN NoAccount
    ELSE LET uid == CHOOSE a \in AdminIds(Users) : \A b \in AdminIds(Users) : a <= b
         IN  IF checkpw(password, Users[uid].password_hash)
             THEN << uid, "admin", "admin" >>
             ELSE NoAccount

\* ---------------------------------------------------- role access codes
verify_code_by_key(key, code) ==
    key \in DOMAIN AppSettings /\ checkpw(code, AppSettings[key])

verify_admin_access(code) == verify_code_by_key("admin_access_code_hash", code)

verify_chef_access(code) == verify_code_by_key("chef_access_code_hash", code)

verify_courier_access(code) == verify_code_by_key("courier_access_code_hash", code)

change_admin_access_code(requester_role, new_code) ==
    LET res == IF requester_role # "admin" THEN "PermissionError" ELSE "OK"
    IN  /\ db_open
        /\ last' = CallNamed("change_admin_access_code", 0, new_code, res,
                            requester_role)
        /\ IF res = "OK"
           THEN /\ AppSettings' =
                     IF "admin_access_code_hash" \in DOMAIN AppSettings
                     THEN [AppSettings EXCEPT
                              !["admin_access_code_hash"] = hashpw(new_code)]
                     ELSE AppSettings
                /\ CommitTo(Orders, OrderItems)
           ELSE /\ UNCHANGED AppSettings
                /\ NoCommit
        /\ UNCHANGED << now, sess, db_open, current_user_id, Users, MenuCategories, MenuItems,
                        OrderStatusRef, Orders, OrderItems, order_seq, item_seq,
                        cat_seq >>

\* ------------------------------------------------------------ categories
\* a MenuCategories table without UNIQUE (name)
CategoryWriteResultNoUnique(name) == "OK"

\* the outcome of the INSERT on MenuCategories: UNIQUE (name)
CategoryWriteResult(name) ==
    IF HasCategoryNamed(MenuCategories, name) THEN "CATEGORY_EXISTS" ELSE "OK"

add_category(name) ==
    LET res == CategoryWriteResult(name)
    IN  /\ db_open
        /\ res = "OK" => cat_seq < MaxCats
        /\ last' = Call("add_category", cat_seq + 1, name, res)
        /\ IF res = "OK"
           THEN /\ MenuCategories' = Extend(MenuCategories, cat_seq + 1, name)
                /\ cat_seq' = cat_seq + 1
                /\ CommitTo(Orders, OrderItems)
           ELSE /\ UNCHANGED << MenuCategories, cat_seq >>
                /\ NoCommit
        /\ UNCHANGED << now, sess, db_open, current_user_id, Users, MenuItems, OrderStatusRef,
                        AppSettings, Orders, OrderItems, order_seq, item_seq >>

\* a MenuItems table without the foreign key to MenuCategories
CategoryReferencedNever(category_id) == FALSE

\* fk_item_cat ... ON DELETE RESTRICT
CategoryReferenced(category_id) ==
    \E i \in DOMAIN MenuItems : MenuItems[i].category_id = category_id

\* delete_category raising when its DELETE matched no row
delete_category_checking_rowcount(category_id) ==
    LET res == IF category_id \notin DOMAIN MenuCategories THEN "CATEGORY_NOT_FOUND"
               ELSE IF CategoryReferenced(category_id) THEN "CATEGORY_IN_USE"
               ELSE "OK"
    IN  /\ db_open
        /\ last' = Call("delete_category", category_id, None, res)
        /\ IF res = "OK"
           THEN /\ MenuCategories' =
                     [c \in (DOMAIN MenuCategories) \ {category_id}
                         |-> MenuCategories[c]]
                /\ CommitTo(Orders, OrderItems)
           ELSE /\ UNCHANGED MenuCategories
                /\ NoCommit
        /\ UNCHANGED << now, sess, db_open, current_user_id, Users, MenuItems,
                        OrderStatusRef, AppSettings, Orders, OrderItems,
                        order_seq, item_seq, cat_seq >>

delete_category(category_id) ==
    LET res == IF CategoryReferenced(category_id) THEN "CATEGORY_IN_USE" ELSE "OK"
    IN  /\ db_open
        /\ last' = Call("delete_category", category_id, None, res)
        /\ IF res = "OK"
           THEN /\ MenuCategories' =
                     [c \in (DOMAIN MenuCategories) \ {category_id}
                         |-> MenuCategories[c]]
                /\ CommitTo(Orders, OrderItems)
           ELSE /\ UNCHANGED MenuCategories
                /\ NoCommit
        /\ UNCHANGED << now, sess, db_open, current_user_id, Users, MenuItems, OrderStatusRef,
                        AppSettings, Orders, OrderItems, order_seq, item_seq,
                        cat_seq >>

\* ------------------------------------------------------------------ menu
\* The price a caller passes is a float; the column is DECIMAL(10,2).  The
\* model gives the passed price in thousandths and the stored price in
\* hundredths: MySQL rounds the extra digit half away from zero, without error.
ToDecimal(price) ==
    IF price >= 0 THEN (price + 5) \div 10 ELSE 0 - ((5 - price) \div 10)

\* a MenuItems table without UNIQUE (name)
ItemNameTakenNoUnique(items, name, except) == FALSE

\* UNIQUE (name): another row than the one being written has the name
ItemNameTaken(items, name, except) ==
    \E i \in DOMAIN items : i # except /\ items[i].name = name

\* the outcome of the INSERT / UPDATE on MenuItems: CHECK (price >= 0),
\* UNIQUE (name), FOREIGN KEY (category_id)
MenuWriteResult(name, price, category_id, except) ==
    IF price < 0 THEN "CHECK_PRICE"
    ELSE IF ItemNameTaken(MenuItems, name, except) THEN "NAME_TAKEN"
    ELSE IF category_id \notin DOMAIN MenuCategories THEN "IntegrityError"
    ELSE "OK"

add_menu_item(name, price, category_id, is_active) ==
    LET res == MenuWriteResult(name, ToDecimal(price), category_id, 0)
    IN  /\ db_open
        /\ res = "OK" => item_seq < MaxItems
        /\ last' = CallNamed("add_menu_item", item_seq + 1, price, res, name)
        /\ IF res = "OK"
           THEN /\ MenuItems' = Extend(MenuItems, item_seq + 1,
                                       [name |-> name, price |-> ToDecimal(price),
                                        category_id |-> category_id,
                                        is_active |-> is_active])
                /\ item_seq' = item_seq + 1
                /\ CommitTo(Orders, OrderItems)
           ELSE /\ UNCHANGED << MenuItems, item_seq >>
                /\ NoCommit
        /\ UNCHANGED << now, sess, db_open, current_user_id, Users, MenuCategories,
                        OrderStatusRef, AppSettings, Orders, OrderItems,
                        order_seq, cat_seq >>

update_menu_item(item_id, new_name, new_price, new_category_id, is_active) ==
    LET res == IF item_id \in DOMAIN MenuItems
               THEN MenuWriteResult(new_name, ToDecimal(new_price),
                                    new_category_id, item_id)
               ELSE "OK"
    IN  /\ db_open
        /\ last' = CallNamed("update_menu_item", item_id, new_price, res, new_name)
        /\ IF res = "OK"
           THEN /\ MenuItems' =
                     IF item_id \in DOMAIN MenuItems
                     THEN [MenuItems EXCEPT ![item_id] =
                              [name |-> new_name, price |-> ToDecimal(new_price),
                               category_id |-> new_category_id,
                               is_active |-> is_active]]
                     ELSE MenuItems
                /\ CommitTo(Orders, OrderItems)
           ELSE /\ UNCHANGED MenuItems
                /\ NoCommit
        /\ UNCHANGED << now, sess, db_open, current_user_id, Users, MenuCategories,
                        OrderStatusRef, AppSettings, Orders, OrderItems,
                        order_seq, item_seq, cat_seq >>

\* fk_oi_item ... ON DELETE RESTRICT
ItemReferenced(item_id) == \E l \in OrderItems : l.item_id = item_id

delete_menu_item_by_id(item_id) ==
    LET res == IF ItemReferenced(item_id) THEN "ITEM_IN_USE" ELSE "OK"
    IN  /\ db_open
        /\ last' = Call("delete_menu_item_by_id", item_id, None, res)
        /\ IF res = "OK"
           THEN /\ MenuItems' = [i \in (DOMAIN MenuItems) \ {item_id} |-> MenuItems[i]]
                /\ CommitTo(Orders, OrderItems)
           ELSE /\ UNCHANGED MenuItems
                /\ NoCommit
        /\ UNCHANGED << now, sess, db_open, current_user_id, Users, MenuCategories,
                        OrderStatusRef, AppSettings, Orders, OrderItems,
                        order_seq, item_seq, cat_seq >>

delete_menu_item_by_name(name) ==
    LET ids == {i \in DOMAIN MenuItems : MenuItems[i].name = name}
        res == IF \E i \in ids : ItemReferenced(i) THEN "ITEM_IN_USE" ELSE "OK"
    IN  /\ db_open
        /\ last' = Call("delete_menu_item_by_name", 0, name, res)
        /\ IF res = "OK"
           THEN /\ MenuItems' = [i \in (DOMAIN MenuItems) \ ids |-> MenuItems[i]]
                /\ CommitTo(Orders, OrderItems)
           ELSE /\ UNCHANGED MenuItems
                /\ NoCommit
        /\ UNCHANGED << now, sess, db_open, current_user_id, Users, MenuCategories,
                        OrderStatusRef, AppSettings, Orders, OrderItems,
                        order_seq, item_seq, cat_seq >>

\* ---------------------------------------------------------------- orders
LinesOf(lines, order_id) == {l \in lines : l.order_id = order_id}

\* the loop with the INSERT's last two values swapped: the quantity lands in
\* price_at_order and the price in quantity
RECURSIVE WriteLinesSwapped(_, _, _, _)
WriteLinesSwapped(order_id, items, i, lines) ==
    IF i > Len(items) THEN [lines |-> lines, res |-> "OK"]
    ELSE LET item_id == items[i].item_id
             qty     == items[i].qty
         IN  IF item_id \notin DOMAIN MenuItems
             THEN [lines |-> lines, res |-> "ITEM_NOT_FOUND"]
             ELSE IF MenuItems[item_id].price <= 0
             THEN [lines |-> lines, res |-> "CHECK_QUANTITY"]
             ELSE IF \E l \in lines : l.order_id = order_id /\ l.item_id = item_id
             THEN [lines |-> lines, res |-> "DUPLICATE_LINE"]
             ELSE WriteLinesSwapped(order_id, items, i + 1,
                                    lines \cup {[order_id |-> order_id,
                                                 item_id |-> item_id,
                                                 quantity |-> MenuItems[item_id].price,
                                                 price_at_order |-> qty]})

\* the "for item_id, qty in items" loop shared by create_order and
\* replace_order_items: SELECT the live price, INSERT the line, stop at the
\* first failure with the lines written so far still in the transaction
RECURSIVE WriteLines(_, _, _, _)
WriteLines(order_id, items, i, lines) ==
    IF i > Len(items) THEN [lines |-> lines, res |-> "OK"]
    ELSE LET item_id == items[i].item_id
             qty     == items[i].qty
         IN  IF item_id \notin DOMAIN MenuItems
             THEN [lines |-> lines, res |-> "ITEM_NOT_FOUND"]
             ELSE IF qty <= 0
             THEN [lines |-> lines, res |-> "CHECK_QUANTITY"]
             ELSE IF \E l \in lines : l.order_id = order_id /\ l.item_id = item_id
             THEN [lines |-> lines, res |-> "DUPLICATE_LINE"]
             ELSE WriteLines(order_id, items, i + 1,
                             lines \cup {[order_id |-> order_id,
                                          item_id |-> item_id,
                                          quantity |-> qty,
                                          price_at_order |-> MenuItems[item_id].price]})

\* what an exception raised after the first write leaves behind
AfterFailedWrite(orders, lines) ==
    /\ Orders' = orders
    /\ OrderItems' = lines
    /\ NoCommit

\* create_order without its test of the current user
NoCurrentUserUnchecked == FALSE

\* if self.current_user_id is None
NoCurrentUser == current_user_id = NoUser

create_order(items, service_type, delivery_address) ==
    LET stype == IF service_type \in {None, ""} THEN "TAKEAWAY" ELSE service_type
        oid   == order_seq + 1
        row   == [status_code |-> "RECEIVED", user_id |-> current_user_id,
                  service_type |-> stype, delivery_address |-> delivery_address,
                  order_date |-> now]
        withRow == Extend(Orders, oid, row)
        w     == WriteLines(oid, items, 1, OrderItems)
    IN  /\ db_open
        /\ order_seq < MaxOrders
        /\ UNCHANGED << now, sess, db_open, current_user_id, Users, MenuCategories, MenuItems,
                        OrderStatusRef, AppSettings, item_seq, cat_seq >>
        /\ IF NoCurrentUser
           THEN /\ last' = Call("create_order", oid, None, "NO_CURRENT_USER")
                /\ UNCHANGED << Orders, OrderItems, order_seq >>
                /\ NoCommit
           ELSE IF current_user_id \notin DOMAIN Users \/ stype \notin ServiceTypeEnum
           THEN /\ last' = Call("create_order", oid, None, "IntegrityError")
                /\ UNCHANGED << Orders, OrderItems, order_seq >>
                /\ NoCommit
           ELSE /\ order_seq' = oid
                /\ last' = Call("create_order", oid, None, w.res)
                /\ IF w.res = "OK"
                   THEN /\ Orders' = withRow
                        /\ OrderItems' = w.lines
                        /\ CommitTo(withRow, w.lines)
                   ELSE AfterFailedWrite(withRow, w.lines)

\* replace_order_items's checks without the RECEIVED-only test
ReplaceCheckNoStatusTest(order_id, requester_user_id) ==
    IF order_id \notin DOMAIN Orders THEN "ORDER_NOT_FOUND"
    ELSE IF Orders[order_id].user_id # requester_user_id THEN "PermissionError"
    ELSE "OK"

\* replace_order_items's checks before its first write
ReplaceCheck(order_id, requester_user_id) ==
    IF order_id \notin DOMAIN Orders THEN "ORDER_NOT_FOUND"
    ELSE IF Orders[order_id].user_id # requester_user_id THEN "PermissionError"
    ELSE IF Orders[order_id].status_code # "RECEIVED" THEN "ONLY_RECEIVED_EDITABLE"
    ELSE "OK"

replace_order_items(order_id, items, requester_user_id) ==
    LET cleared == OrderItems \ LinesOf(OrderItems, order_id)
        w       == WriteLines(order_id, items, 1, cleared)
        chk     == ReplaceCheck(order_id, requester_user_id)
        res     == IF chk = "OK" THEN w.res ELSE chk
    IN  /\ db_open
        /\ last' = Call("replace_order_items", order_id, requester_user_id, res)
        /\ UNCHANGED << now, sess, db_open, current_user_id, Users, MenuCategories, MenuItems,
                        OrderStatusRef, AppSettings, order_seq, item_seq, cat_seq >>
        /\ IF res \in {"ORDER_NOT_FOUND", "PermissionError", "ONLY_RECEIVED_EDITABLE"}
           THEN /\ UNCHANGED << Orders, OrderItems >>
                /\ NoCommit
           ELSE IF res = "OK"
           THEN /\ UNCHANGED Orders
                /\ OrderItems' = w.lines
                /\ CommitTo(Orders, w.lines)
           ELSE AfterFailedWrite(Orders, w.lines)

get_next_statuses(current_status) ==
    IF current_status \in DOMAIN STATUS_FLOW THEN STATUS_FLOW[current_status] ELSE {}

\* update_order_status's transition rule with the terminal-status test of the
\* CANCELED branch left out
TransitionAllowedNoTerminalTest(current, new_status) ==
    new_status = "CANCELED" \/ new_status \in get_next_statuses(current)

\* update_order_status's transition rule
TransitionAllowed(current, new_status) ==
    IF new_status = "CANCELED"
    THEN current \notin {"COMPLETED", "CANCELED"}
    ELSE new_status \in get_next_statuses(current)

update_order_status(order_id, new_status) ==
    LET res == IF order_id \notin DOMAIN Orders THEN "ORDER_NOT_FOUND"
               ELSE IF ~TransitionAllowed(Orders[order_id].status_code, new_status)
               THEN "INVALID_TRANSITION"
               ELSE "OK"
    IN  /\ db_open
        /\ last' = Call("update_order_status", order_id, new_status, res)
        /\ UNCHANGED << now, sess, db_open, current_user_id, Users, MenuCategories, MenuItems,
                        OrderStatusRef, AppSettings, OrderItems, order_seq,
                        item_seq, cat_seq >>
        /\ IF res = "OK"
           THEN /\ Orders' = [Orders EXCEPT ![order_id].status_code = new_status]
                /\ CommitTo(Orders', OrderItems)
           ELSE /\ UNCHANGED Orders
                /\ NoCommit

\* cancel_order_by_user's status rule letting a COMPLETED order through
UserCancellableAlsoCompleted(status_code) == status_code # "CANCELED"

\* cancel_order_by_user's status rule
UserCancellable(status_code) == status_code \in {"RECEIVED", "IN_PROGRESS", "READY"}

\* cancel_order_by_user's checks without the ownership test
CancelCheckNoOwnerTest(order_id, requester_user_id) ==
    IF order_id \notin DOMAIN Orders THEN "ORDER_NOT_FOUND"
    ELSE IF ~UserCancellable(Orders[order_id].status_code)
    THEN "CANNOT_CANCEL_THIS_STATUS"
    ELSE "OK"

\* cancel_order_by_user's checks
CancelCheck(order_id, requester_user_id) ==
    IF order_id \notin DOMAIN Orders THEN "ORDER_NOT_FOUND"
    ELSE IF Orders[order_id].user_id # requester_user_id THEN "PermissionError"
    ELSE IF ~UserCancellable(Orders[order_id].status_code)
    THEN "CANNOT_CANCEL_THIS_STATUS"
    ELSE "OK"

\* cancel_order_by_user deleting the lines of the order it cancels
cancel_order_by_user_dropping_lines(order_id, requester_user_id) ==
    LET res == CancelCheck(order_id, requester_user_id)
    IN  /\ db_open
        /\ last' = Call("cancel_order_by_user", order_id, requester_user_id, res)
        /\ UNCHANGED << now, sess, db_open, current_user_id, Users, MenuCategories,
                        MenuItems, OrderStatusRef, AppSettings, order_seq,
                        item_seq, cat_seq >>
        /\ IF res = "OK"
           THEN /\ Orders' = [Orders EXCEPT ![order_id].status_code = "CANCELED"]
                /\ OrderItems' = OrderItems \ LinesOf(OrderItems, order_id)
                /\ CommitTo(Orders', OrderItems')
           ELSE /\ UNCHANGED << Orders, OrderItems >>
                /\ NoCommit

cancel_order_by_user(order_id, requester_user_id) ==
    LET res == CancelCheck(order_id, requester_user_id)
    IN  /\ db_open
        /\ last' = Call("cancel_order_by_user", order_id, requester_user_id, res)
        /\ UNCHANGED << now, sess, db_open, current_user_id, Users, MenuCategories, MenuItems,
                        OrderStatusRef, AppSettings, OrderItems, order_seq,
                        item_seq, cat_seq >>
        /\ IF res = "OK"
           THEN /\ Orders' = [Orders EXCEPT ![order_id].status_code = "CANCELED"]
                /\ CommitTo(Orders', OrderItems)
           ELSE /\ UNCHANGED Orders
                /\ NoCommit

\* ----------------------------------------------------------------- reads
RECURSIVE SumLines(_)
SumLines(lines) ==
    IF lines = {} THEN 0
    ELSE LET l == CHOOSE x \in lines : TRUE
         IN  l.quantity * l.price_at_order + SumLines(lines \ {l})

\* the lines priced at the live MenuItems price instead of the snapshot
RECURSIVE SumLinesLive(_)
SumLinesLive(lines) ==
    IF lines = {} THEN 0
    ELSE LET l == CHOOSE x \in lines : TRUE
         IN  l.quantity * MenuItems[l.item_id].price + SumLinesLive(lines \ {l})

\* v_order_totals summing quantity * MenuItems.price
v_order_totals_live(order_id) ==
    SumLinesLive({l \in LinesOf(OrderItems, order_id) : l.item_id \in DOMAIN MenuItems})

\* the view v_order_totals: COALESCE(SUM(quantity * price_at_order), 0)
v_order_totals(order_id) == SumLines(LinesOf(OrderItems, order_id))

\* get_orders / get_orders_for_user / get_delivery_orders / report_orders:
\* the total column, COALESCE(v.total, 0)
get_orders_total(order_id) == v_order_totals(order_id)

\* get_order_items taking mi.price for the subtotal
get_order_items_total_live(order_id) ==
    SumLinesLive({l \in LinesOf(OrderItems, order_id) : l.item_id \in DOMAIN MenuItems})

\* get_order_items: the rows are OrderItems JOIN MenuItems, the total is the
\* sum of their subtotals
get_order_items_total(order_id) ==
    SumLines({l \in LinesOf(OrderItems, order_id) : l.item_id \in DOMAIN MenuItems})

\* ---------------------------------------------------------------- reports
\* the server's clock moves on
Tick ==
    /\ now < MaxTime
    /\ now' = now + 1
    /\ UNCHANGED << sess, db_open, current_user_id, Users, MenuCategories,
                    MenuItems, OrderStatusRef, AppSettings, Orders, OrderItems,
                    committedOrders, committedOrderItems, order_seq, item_seq,
                    cat_seq, last >>

CallReport(op, rows, start_dt, end_dt, statuses) ==
    [op |-> op, id |-> 0, arg |-> rows, res |-> "OK", start_dt |-> start_dt,
     end_dt |-> end_dt, statuses |-> statuses]

\* the statuses argument: None, or a list of codes kept as a set
NoStatuses == [given |-> FALSE, list |-> {}]

StatusList(codes) == [given |-> TRUE, list |-> codes]

\* Python's truth value of the argument: None and the empty list are false
Truthy(statuses) == statuses.given /\ statuses.list # {}

\* one row of report_orders
report_row(order_id) ==
    [order_id |-> order_id, order_date |-> Orders[order_id].order_date,
     status_code |-> Orders[order_id].status_code,
     service_type |-> Orders[order_id].service_type,
     total |-> get_orders_total(order_id)]

\* report_orders' query with the upper end of the period left out
report_rows_half_open(start_dt, end_dt, statuses) ==
    { report_row(o) : o \in { x \in DOMAIN Orders :
          /\ start_dt <= Orders[x].order_date
          /\ Orders[x].order_date < end_dt
          /\ Truthy(statuses) => Orders[x].status_code \in statuses.list } }

\* report_orders' query: order_date BETWEEN start_dt AND end_dt, and
\* status_code IN statuses under "if statuses:"; the rows are kept as a set,
\* the order of equal dates being open
report_rows(start_dt, end_dt, statuses) ==
    { report_row(o) : o \in { x \in DOMAIN Orders :
          /\ start_dt <= Orders[x].order_date
          /\ Orders[x].order_date <= end_dt
          /\ Truthy(statuses) => Orders[x].status_code \in statuses.list } }

\* report_orders: a SELECT with no write and no commit
report_orders(start_dt, end_dt, statuses) ==
    /\ db_open
    /\ last' = CallReport("report_orders", report_rows(start_dt, end_dt, statuses),
                          start_dt, end_dt, statuses)
    /\ NoCommit
    /\ UNCHANGED << now, sess, db_open, current_user_id, Users, MenuCategories,
                    MenuItems, OrderStatusRef, AppSettings, Orders, OrderItems,
                    order_seq, item_seq, cat_seq >>

\* ------------------------------------------- two connections starting up
\* the seeders in the order _ensure_schema runs them
SeedSteps == << "general", "admin", "statuses", "categories", "admin_code",
               "chef_code", "courier_code" >>

SeedKey(step) ==
    IF step = "admin_code" THEN "admin_access_code_hash"
    ELSE IF step = "chef_code" THEN "chef_access_code_hash"
    ELSE "courier_access_code_hash"

SeedRaw(step, env) ==
    IF step = "admin_code" THEN env.ADMIN_ACCESS_CODE
    ELSE IF step = "chef_code" THEN env.CHEF_ACCESS_CODE
    ELSE env.COURIER_ACCESS_CODE

\* what a seeder's SELECT finds missing
SeedMissing(step) ==
    IF step = "general" THEN ~HasCategoryNamed(MenuCategories, "General")
    ELSE IF step = "admin" THEN AdminIds(Users) = {}
    ELSE IF step = "statuses" THEN OrderStatusRef = {}
    ELSE IF step = "categories" THEN DOMAIN MenuCategories = {}
    ELSE SeedKey(step) \notin DOMAIN AppSettings

\* a seeder's INSERT meets a row with its unique or primary key
SeedConflict(step) ==
    IF step = "general" THEN HasCategoryNamed(MenuCategories, "General")
    ELSE IF step = "admin" THEN \E u \in DOMAIN Users : Users[u].username = "admin"
    ELSE IF step = "statuses" THEN OrderStatusRef # {}
    ELSE IF step = "categories"
    THEN \E n \in {"Mains", "Drinks", "Desserts"} : HasCategoryNamed(MenuCategories, n)
    ELSE SeedKey(step) \in DOMAIN AppSettings

\* the connection moves on to the next seeder, or its constructor returns
AfterSeed(c) ==
    IF sess[c].step < Len(SeedSteps)
    THEN [sess EXCEPT ![c].pc = "select", ![c].step = sess[c].step + 1]
    ELSE [sess EXCEPT ![c].pc = "done"]

\* DatabaseManager() is called on connection c
BeginStartup(c) ==
    /\ sess[c].pc = "idle"
    /\ sess' = [sess EXCEPT ![c].pc = "select", ![c].step = 1]
    /\ NoCommit
    /\ UNCHANGED << now, db_open, current_user_id, Users, MenuCategories,
                    MenuItems, OrderStatusRef, AppSettings, Orders, OrderItems,
                    order_seq, item_seq, cat_seq, last >>

\* the SELECT of the seeder the connection has reached
StartupSelect(c, env) ==
    LET step == SeedSteps[sess[c].step]
        next == IF SeedMissing(step) THEN [sess EXCEPT ![c].pc = "insert"]
                ELSE AfterSeed(c)
    IN  /\ sess[c].pc = "select"
        /\ sess' = next
        /\ db_open' = (db_open \/ next[c].pc = "done")
        /\ last' = IF next[c].pc = "done" THEN Call("startup", c, env, "OK")
                   ELSE last
        /\ NoCommit
        /\ UNCHANGED << now, current_user_id, Users, MenuCategories, MenuItems,
                        OrderStatusRef, AppSettings, Orders, OrderItems,
                        order_seq, item_seq, cat_seq >>

\* the INSERT and commit of that seeder; a duplicate key is an IntegrityError
\* that nothing catches, so the constructor raises
StartupInsert(c, env) ==
    LET step == SeedSteps[sess[c].step]
        next == IF SeedConflict(step) THEN [sess EXCEPT ![c].pc = "failed"]
                ELSE AfterSeed(c)
    IN  /\ sess[c].pc = "insert"
        /\ sess' = next
        /\ db_open' = (db_open \/ next[c].pc = "done")
        /\ last' = IF next[c].pc = "done" THEN Call("startup", c, env, "OK")
                   ELSE IF next[c].pc = "failed"
                   THEN Call("startup", c, env, "IntegrityError")
                   ELSE last
        /\ IF SeedConflict(step)
           THEN UNCHANGED << Users, MenuCategories, OrderStatusRef, AppSettings,
                             cat_seq >>
           ELSE /\ MenuCategories' =
                     IF step = "general" THEN EnsureGeneral(MenuCategories)
                     ELSE IF step = "categories"
                     THEN BootstrapCategories(MenuCategories, cat_seq)
                     ELSE MenuCategories
                /\ cat_seq' = IF step = "general" THEN cat_seq + 1
                              ELSE IF step = "categories" THEN cat_seq + 3
                              ELSE cat_seq
                /\ Users' = IF step = "admin" THEN BootstrapAdmin(Users, env)
                            ELSE Users
                /\ OrderStatusRef' = IF step = "statuses"
                                     THEN BootstrapStatuses(OrderStatusRef)
                                     ELSE OrderStatusRef
                /\ AppSettings' =
                     IF step \in {"admin_code", "chef_code", "courier_code"}
                     THEN SeedSetting(AppSettings, SeedKey(step), SeedRaw(step, env))
                     ELSE AppSettings
        /\ NoCommit
        /\ UNCHANGED << now, current_user_id, MenuItems, Orders, OrderItems,
                        order_seq, item_seq >>

\* ------------------------------- two connections changing an order's status
\* No write is pending in the specification that uses these steps, so every
\* connection reads the rows of Orders.

\* update_order_status on connection c, up to its UPDATE: the SELECT of the
\* status and the transition test
StatusSelect(c, order_id, new_status) ==
    LET res == IF order_id \notin DOMAIN Orders THEN "ORDER_NOT_FOUND"
               ELSE IF ~TransitionAllowed(Orders[order_id].status_code, new_status)
               THEN "INVALID_TRANSITION"
               ELSE "OK"
    IN  /\ db_open
        /\ sess[c].pc = "idle"
        /\ IF res = "OK"
           THEN /\ sess' = [sess EXCEPT ![c].pc = "update",
                                        ![c].order_id = order_id,
                                        ![c].new_status = new_status]
                /\ UNCHANGED last
           ELSE /\ last' = Call("update_order_status", order_id, new_status, res)
                /\ UNCHANGED sess
        /\ NoCommit
        /\ UNCHANGED << now, db_open, current_user_id, Users, MenuCategories,
                        MenuItems, OrderStatusRef, AppSettings, Orders,
                        OrderItems, order_seq, item_seq, cat_seq >>

\* cancel_order_by_user on connection c, up to its UPDATE: the SELECT of owner
\* and status and the two tests
CancelSelect(c, order_id, requester_user_id) ==
    LET res == CancelCheck(order_id, requester_user_id)
    IN  /\ db_open
        /\ sess[c].pc = "idle"
        /\ IF res = "OK"
           THEN /\ sess' = [sess EXCEPT ![c].pc = "update",
                                        ![c].order_id = order_id,
                                        ![c].new_status = "CANCELED"]
                /\ UNCHANGED last
           ELSE /\ last' = Call("cancel_order_by_user", order_id,
                                requester_user_id, res)
                /\ UNCHANGED sess
        /\ NoCommit
        /\ UNCHANGED << now, db_open, current_user_id, Users, MenuCategories,
                        MenuItems, OrderStatusRef, AppSettings, Orders,
                        OrderItems, order_seq, item_seq, cat_seq >>

\* the rest of either call: UPDATE Orders SET status_code = ... WHERE
\* order_id = ..., whatever the status has become, and the commit
StatusUpdate(c) ==
    /\ sess[c].pc = "update"
    /\ Orders' = [Orders EXCEPT ![sess[c].order_id].status_code = sess[c].new_status]
    /\ CommitTo(Orders', OrderItems)
    /\ sess' = [sess EXCEPT ![c] = Idle]
    /\ last' = Call("status_update", sess[c].order_id, sess[c].new_status, "OK")
    /\ UNCHANGED << now, db_open, current_user_id, Users, MenuCategories,
                    MenuItems, OrderStatusRef, AppSettings, OrderItems,
                    order_seq, item_seq, cat_seq >>

\* ------------------------------------------------------- specifications
Next ==
    \/ Startup(DefaultEnv)
    \/ \E u \in UserIds : set_current_user(u)
    \/ \E r \in RoleEnum : create_user("bob", "pw2", r)
    \/ \E n \in ItemNames, p \in Prices : add_menu_item(n, p, 1, TRUE)
    \/ \E i \in ItemIds, p \in Prices :
          \E n \in ItemNames : update_menu_item(i, n, p, 1, TRUE)
    \/ \E i \in ItemIds : delete_menu_item_by_id(i)
    \/ \E its \in LineSeqs : create_order(its, None, None)
    \/ \E o \in OrderIds, its \in LineSeqs, u \in UserIds : replace_order_items(o, its, u)
    \/ \E o \in OrderIds, t \in Targets : update_order_status(o, t)
    \/ \E o \in OrderIds, u \in UserIds : cancel_order_by_user(o, u)

Spec == Init /\ [][Next]_vars

\* the order form of the UI: MainApp._confirm_create_order strips the address
\* and refuses a DELIVERY order without one before it calls create_order
confirm_create_order(items, stype, addr) ==
    IF stype = "DELIVERY" /\ addr \in {None, ""}
    THEN /\ db_open
         /\ last' = Call("confirm_create_order", order_seq + 1, None, "ADDRESS_REQUIRED")
         /\ NoCommit
         /\ UNCHANGED << now, sess, db_open, current_user_id, Users, MenuCategories, MenuItems,
                         OrderStatusRef, AppSettings, Orders, OrderItems,
                         order_seq, item_seq, cat_seq >>
    ELSE create_order(items, stype, IF addr = "" THEN None ELSE addr)

\* the order lifecycle alone: orders without lines
NextStatus ==
    \/ Startup(DefaultEnv)
    \/ \E u \in UserIds : set_current_user(u)
    \/ create_user("bob", "pw2", "user")
    \/ create_order(<< >>, None, None)
    \/ \E o \in OrderIds, u \in UserIds : replace_order_items(o, << >>, u)
    \/ \E o \in OrderIds, t \in Targets : update_order_status(o, t)
    \/ \E o \in OrderIds, u \in UserIds : cancel_order_by_user(o, u)

SpecStatus == Init /\ [][NextStatus]_vars

\* order placement with every service type and address
Addresses == {None, "", "1 Main St"}

NextDelivery ==
    \/ Startup(DefaultEnv)
    \/ \E u \in UserIds : set_current_user(u)
    \/ \E st \in ServiceTypeEnum \cup {None}, a \in Addresses :
          create_order(<< >>, st, a)
    \/ \E st \in ServiceTypeEnum, a \in Addresses :
          confirm_create_order(<< >>, st, a)
    \/ \E o \in OrderIds, u \in UserIds : cancel_order_by_user(o, u)

SpecDelivery == Init /\ [][NextDelivery]_vars

\* accounts alone
AltEnv == [DefaultEnv EXCEPT !.DEFAULT_ADMIN_PASSWORD = "pw2"]

NextUsers ==
    \/ \E env \in {DefaultEnv, AltEnv} : Startup(env)
    \/ \E n \in Usernames, pw \in Passwords, r \in RoleEnum : create_user(n, pw, r)
    \/ \E u \in UserIds, old \in Passwords, new \in Passwords :
          change_user_password(u, old, new)

SpecUsers == Init /\ [][NextUsers]_vars

\* startup and the secrets it seeds: restarts under two environments, the
\* admin's password and access code changed in between, categories deleted
OtherEnv ==
    [ DEFAULT_ADMIN_PASSWORD |-> "pw2",
      ADMIN_ACCESS_CODE      |-> "A2",
      CHEF_ACCESS_CODE       |-> "C2",
      COURIER_ACCESS_CODE    |-> "K2" ]

BootEnvs == {DefaultEnv, OtherEnv}

BootSecrets == {"admin", "pw2", "pw3", "P72+a"}

BootCodes == {"ADMIN123", "CHEF123", "COURIER123", "A2", "C2", "K2", "A3", "P72+a",
              "P72+b"}

CategoryIds == 1 .. MaxCats

\* access codes an administrator may choose, two of them sharing their first
\* 72 bytes
CodeInputs == {"A3", "ADMIN123"} \cup LongSecrets

NextBoot ==
    \/ \E env \in BootEnvs : Startup(env)
    \/ \E old \in BootSecrets, new \in {"pw3"} : change_user_password(1, old, new)
    \/ \E r \in RoleEnum, c \in CodeInputs : change_admin_access_code(r, c)
    \/ \E c \in CategoryIds : delete_category(c)

SpecBoot == Init /\ [][NextBoot]_vars

\* the catalog: categories, items with any price and category, and orders of
\* one line that reference the items
CategoryNames == {"General", "Drinks"}

CatalogPrices == {20}

OneLine == {<< [item_id |-> i, qty |-> 2] >> : i \in ItemIds}

NextCatalog ==
    \/ Startup(DefaultEnv)
    \/ set_current_user(1)
    \/ \E n \in CategoryNames : add_category(n)
    \/ \E c \in CategoryIds : delete_category(c)
    \/ \E n \in ItemNames, p \in CatalogPrices, c \in CategoryIds :
          add_menu_item(n, p, c, TRUE)
    \/ \E i \in ItemIds, n \in ItemNames, p \in CatalogPrices :
          update_menu_item(i, n, p, 1, TRUE)
    \/ \E i \in ItemIds : delete_menu_item_by_id(i)
    \/ \E n \in ItemNames : delete_menu_item_by_name(n)
    \/ \E its \in OneLine : create_order(its, None, None)

SpecCatalog == Init /\ [][NextCatalog]_vars

\* logins: accounts created and passwords changed with secrets of any length
AuthNames == {"bob", "eve"}

AuthSecrets == {"admin", "pw2"} \cup LongSecrets

NextAuth ==
    \/ Startup(DefaultEnv)
    \/ \E n \in AuthNames, pw \in AuthSecrets : create_user(n, pw, "user")
    \/ \E u \in UserIds, old \in AuthSecrets, new \in AuthSecrets :
          change_user_password(u, old, new)

SpecAuth == Init /\ [][NextAuth]_vars

\* the menu written with any price a caller can pass
PriceInputs == {-10, -4, 4, 20}

NextPrices ==
    \/ Startup(DefaultEnv)
    \/ \E n \in ItemNames, p \in PriceInputs : add_menu_item(n, p, 1, TRUE)
    \/ \E i \in ItemIds, n \in ItemNames, p \in PriceInputs :
          update_menu_item(i, n, p, 1, TRUE)
    \/ \E i \in ItemIds : delete_menu_item_by_id(i)

SpecPrices == Init /\ [][NextPrices]_vars

\* order placement against a menu whose prices move
NextPlace ==
    \/ Startup(DefaultEnv)
    \/ \E u \in UserIds : set_current_user(u)
    \/ create_user("bob", "pw2", "user")
    \/ \E n \in ItemNames, p \in Prices : add_menu_item(n, p, 1, TRUE)
    \/ \E i \in ItemIds, p \in Prices :
          \E n \in ItemNames : update_menu_item(i, n, p, 1, TRUE)
    \/ \E its \in LineSeqs : create_order(its, None, None)

SpecPlace == Init /\ [][NextPlace]_vars

\* ================================================================ claims

Failed(res) == res # "OK"

\* C1: after create_order has failed on an unknown item id, the operation that
\* follows it on the same DatabaseManager publishes neither the Orders row nor
\* any OrderItems row that the failed call wrote.
C1_FailedCreateNeverPersisted ==
    [][ (last.op = "create_order" /\ last.res = "ITEM_NOT_FOUND")
        => /\ last.id \notin DOMAIN committedOrders'
           /\ LinesOf(committedOrderItems', last.id) = {} ]_vars

\* C2: after replace_order_items (by the owner, on a RECEIVED order) has failed
\* on an unknown item id, the operation that follows it, unless it is itself a
\* replace of that order's lines, leaves the order's durable lines as they were.
C2_FailedReplaceKeepsLines ==
    [][ ( /\ last.op = "replace_order_items"
          /\ last.res = "ITEM_NOT_FOUND"
          /\ last'.op # "replace_order_items" )
        => LinesOf(committedOrderItems', last.id)
              = LinesOf(committedOrderItems, last.id) ]_vars

\* the legal-next-status table as the claim gives it
C3_LegalNext(status) ==
    CASE status = "RECEIVED"    -> {"IN_PROGRESS", "CANCELED"}
      [] status = "IN_PROGRESS" -> {"READY", "CANCELED"}
      [] status = "READY"       -> {"COMPLETED", "CANCELED"}
      [] OTHER                  -> {}

\* C3: update_order_status on an existing order succeeds, and sets the status to
\* the target, exactly when the target is a legal next status of the current
\* one; every other target fails with INVALID_TRANSITION and the status stays.
C3_UpdateStatusFollowsFlow ==
    [][ (last'.op = "update_order_status" /\ last'.id \in DOMAIN Orders)
        => LET o   == last'.id
               cur == Orders[o].status_code
           IN  IF last'.arg \in C3_LegalNext(cur)
               THEN last'.res = "OK" /\ Orders'[o].status_code = last'.arg
               ELSE /\ last'.res = "INVALID_TRANSITION"
                    /\ Orders'[o].status_code = cur ]_vars

\* a rejected attempt to re-enter the current status READY
C3_Witness ==
    /\ last.op = "update_order_status"
    /\ last.res = "INVALID_TRANSITION"
    /\ last.arg = "READY"
    /\ last.id \in DOMAIN Orders
    /\ Orders[last.id].status_code = "READY"

\* C4: once an order is COMPLETED or CANCELED no step changes its status
\* again, neither as the connection reads it nor as committed.
C4_TerminalStatusesStay ==
    [][ /\ \A o \in DOMAIN Orders :
              Orders[o].status_code \in {"COMPLETED", "CANCELED"}
              => o \in DOMAIN Orders' /\ Orders'[o].status_code = Orders[o].status_code
        /\ \A o \in DOMAIN committedOrders :
              committedOrders[o].status_code \in {"COMPLETED", "CANCELED"}
              => /\ o \in DOMAIN committedOrders'
                 /\ committedOrders'[o].status_code = committedOrders[o].status_code
      ]_vars

\* an operation was attempted on a COMPLETED order and refused
C4_Witness ==
    /\ last.op \in {"update_order_status", "cancel_order_by_user", "replace_order_items"}
    /\ last.id \in DOMAIN Orders
    /\ Orders[last.id].status_code = "COMPLETED"
    /\ Failed(last.res)

\* the claim's total: per item id, the quantity times the price snapshot of the
\* order's line for that item, 0 where the order has no such line
RECURSIVE C5_SumByItem(_, _, _)
C5_SumByItem(lines, order_id, i) ==
    IF i = 0 THEN 0
    ELSE LET ls == {l \in lines : l.order_id = order_id /\ l.item_id = i}
             sub == IF ls = {} THEN 0
                    ELSE LET l == CHOOSE x \in ls : TRUE
                         IN  l.quantity * l.price_at_order
         IN  sub + C5_SumByItem(lines, order_id, i - 1)

\* C5: for every order, the total of the listings (v_order_totals) and the
\* total of get_order_items both equal the sum of quantity x price_at_order
\* over the order's current lines, whatever the live prices are.
C5_TotalsAreSnapshotSums ==
    \A o \in DOMAIN Orders :
        /\ get_orders_total(o) = C5_SumByItem(OrderItems, o, item_seq)
        /\ get_order_items_total(o) = C5_SumByItem(OrderItems, o, item_seq)

\* an order with two lines, one of them for an item whose live price has
\* moved away from the snapshot
C5_Witness ==
    \E o \in DOMAIN Orders :
        /\ Cardinality(LinesOf(OrderItems, o)) = 2
        /\ \E l \in LinesOf(OrderItems, o) :
              MenuItems[l.item_id].price # l.price_at_order

\* C6: a successful update_menu_item leaves every OrderItems row, and the total
\* reported for every order, as it was.
C6_MenuUpdateKeepsSnapshots ==
    [][ (last'.op = "update_menu_item" /\ last'.res = "OK")
        => /\ OrderItems' = OrderItems
           /\ \A o \in DOMAIN Orders :
                 /\ get_orders_total(o)' = get_orders_total(o)
                 /\ get_order_items_total(o)' = get_order_items_total(o) ]_vars

\* update_menu_item has just changed the price of an item that an order line
\* snapshotted at another price
C6_Witness ==
    /\ last.op = "update_menu_item"
    /\ last.res = "OK"
    /\ last.id \in DOMAIN MenuItems
    /\ MenuItems[last.id].price = ToDecimal(last.arg)
    /\ \E l \in OrderItems :
          l.item_id = last.id /\ l.price_at_order # ToDecimal(last.arg)

\* C7: cancel_order_by_user on an existing order: a requester who is not the
\* owner gets PermissionError; the owner of a RECEIVED, IN_PROGRESS or READY
\* order succeeds and the status becomes CANCELED; the owner of a COMPLETED or
\* CANCELED order gets the status failure; both failures leave the status.
C7_CancelByUserRule ==
    [][ (last'.op = "cancel_order_by_user" /\ last'.id \in DOMAIN Orders)
        => LET o   == last'.id
               cur == Orders[o].status_code
           IN  IF Orders[o].user_id # last'.arg
               THEN /\ last'.res = "PermissionError"
                    /\ Orders'[o].status_code = cur
               ELSE IF cur \in {"RECEIVED", "IN_PROGRESS", "READY"}
               THEN /\ last'.res = "OK"
                    /\ Orders'[o].status_code = "CANCELED"
               ELSE /\ last'.res = "CANNOT_CANCEL_THIS_STATUS"
                    /\ Orders'[o].status_code = cur ]_vars

\* somebody else than the owner was refused the cancellation of a READY order
C7_Witness ==
    /\ last.op = "cancel_order_by_user"
    /\ last.res = "PermissionError"
    /\ last.id \in DOMAIN Orders
    /\ Orders[last.id].status_code = "READY"
    /\ Orders[last.id].user_id # last.arg

\* C8: replace_order_items on an existing order fails with PermissionError for
\* a requester who is not the owner and with ONLY_RECEIVED_EDITABLE for the
\* owner of an order that is not RECEIVED; either way the order's lines, as
\* read and as committed, are what they were.
C8_ReplaceRefusedKeepsLines ==
    [][ (last'.op = "replace_order_items" /\ last'.id \in DOMAIN Orders)
        => LET o       == last'.id
               isOwner == Orders[o].user_id = last'.arg
               editable == Orders[o].status_code = "RECEIVED"
           IN  /\ ~isOwner => last'.res = "PermissionError"
               /\ (isOwner /\ ~editable) => last'.res = "ONLY_RECEIVED_EDITABLE"
               /\ (~isOwner \/ ~editable)
                  => /\ LinesOf(OrderItems', o) = LinesOf(OrderItems, o)
                     /\ LinesOf(committedOrderItems', o)
                           = LinesOf(committedOrderItems, o) ]_vars

\* somebody else than the owner was refused the replacement of the lines of a
\* RECEIVED order that has lines
C8_Witness ==
    /\ last.op = "replace_order_items"
    /\ last.res = "PermissionError"
    /\ last.id \in DOMAIN Orders
    /\ Orders[last.id].status_code = "RECEIVED"
    /\ LinesOf(OrderItems, last.id) # {}

\* C9: no durable order has service type DELIVERY and an empty or missing
\* delivery address (create_order rejects such a call and persists nothing).
C9_DeliveryNeedsAddress ==
    \A o \in DOMAIN committedOrders :
        committedOrders[o].service_type = "DELIVERY"
        => committedOrders[o].delivery_address \notin {None, ""}

\* C10: create_user with role 'admin' fails and adds no account, and while a
\* DatabaseManager exists exactly one account has role admin.
C10_SingleAdmin ==
    /\ (last.op = "create_user" /\ last.arg = "admin")
       => Failed(last.res) /\ last.id \notin DOMAIN Users
    /\ db_open => Cardinality(AdminIds(Users)) = 1

\* create_user with role 'admin' was refused after another account had been
\* registered and the admin's password changed
C10_Witness ==
    /\ last.op = "create_user"
    /\ last.arg = "admin"
    /\ Cardinality(DOMAIN Users) = 2
    /\ \E u \in AdminIds(Users) : checkpw("pw2", Users[u].password_hash)

\* C11: a startup that finds no admin account leaves exactly one, the admin
\* login accepts the configured default password and returns that account, and
\* each of verify_admin_access, verify_chef_access and verify_courier_access
\* accepts its configured default code and no other code.
C11_BootstrapSeedsAdminAndCodes ==
    [][ \A env \in BootEnvs :
          ( /\ last'.op = "startup" /\ last'.res = "OK" /\ last'.arg = env
            /\ AdminIds(Users) = {} )
          => /\ Cardinality(AdminIds(Users')) = 1
             /\ \E a \in AdminIds(Users') :
                   authenticate_admin_password(env.DEFAULT_ADMIN_PASSWORD)'
                      = << a, "admin", "admin" >>
             /\ \A c \in BootCodes :
                   /\ verify_admin_access(c)' <=> c = env.ADMIN_ACCESS_CODE
                   /\ verify_chef_access(c)' <=> c = env.CHEF_ACCESS_CODE
                   /\ verify_courier_access(c)' <=> c = env.COURIER_ACCESS_CODE ]_vars

\* the store right after its first startup under the second environment
C11_Witness ==
    /\ last.op = "startup"
    /\ last.arg = OtherEnv
    /\ Cardinality(AdminIds(Users)) = 1
    /\ authenticate_admin_password("pw2") # NoAccount
    /\ verify_admin_access("A2")
    /\ verify_chef_access("C2")
    /\ verify_courier_access("K2")

\* a store in which every seed row is present
C12_Initialised ==
    /\ AdminIds(Users) # {}
    /\ HasCategoryNamed(MenuCategories, "General")
    /\ OrderStatusRef # {}
    /\ {"admin_access_code_hash", "chef_access_code_hash",
        "courier_access_code_hash"} \subseteq DOMAIN AppSettings

\* C12: a startup on a store that has all its seed rows changes no stored data,
\* whatever the environment says; on any store it overwrites no existing row
\* and leaves one admin account and one General category, so a password or
\* access code changed earlier still verifies afterwards.
C12_StartupIdempotent ==
    [][ (last'.op = "startup" /\ last'.res = "OK")
        => /\ C12_Initialised
              => /\ UNCHANGED << Users, MenuCategories, MenuItems, OrderStatusRef,
                                 AppSettings, committedOrders, committedOrderItems >>
                 /\ \A p \in BootSecrets :
                       authenticate_admin_password(p)' = authenticate_admin_password(p)
                 /\ \A c \in BootCodes :
                       /\ verify_admin_access(c)' = verify_admin_access(c)
                       /\ verify_chef_access(c)' = verify_chef_access(c)
                       /\ verify_courier_access(c)' = verify_courier_access(c)
           /\ \A u \in DOMAIN Users : u \in DOMAIN Users' /\ Users'[u] = Users[u]
           /\ \A c \in DOMAIN MenuCategories :
                 c \in DOMAIN MenuCategories' /\ MenuCategories'[c] = MenuCategories[c]
           /\ \A k \in DOMAIN AppSettings :
                 k \in DOMAIN AppSettings' /\ AppSettings'[k] = AppSettings[k]
           /\ OrderStatusRef # {} => OrderStatusRef' = OrderStatusRef
           /\ Cardinality(AdminIds(Users')) = 1
           /\ Cardinality({c \in DOMAIN MenuCategories' :
                              MenuCategories'[c] = "General"}) = 1 ]_vars

\* a restart under an environment whose defaults all differ from what is
\* stored: the admin's password and access code were changed after seeding
C12_Witness ==
    /\ last.op = "startup"
    /\ last.arg = OtherEnv
    /\ authenticate_admin_password("pw3") # NoAccount
    /\ verify_admin_access("A3")
    /\ verify_chef_access("CHEF123")
    /\ ~verify_admin_access("A2")

\* C13: delete_category on a category that a MenuItems row references fails
\* with CATEGORY_IN_USE; delete_menu_item_by_id and delete_menu_item_by_name on
\* an item that an OrderItems row references fail with ITEM_IN_USE; the failed
\* call leaves MenuCategories, MenuItems and OrderItems, read and committed,
\* as they were.
C13_ReferencedRowsCannotBeDeleted ==
    [][ LET catInUse  == /\ last'.op = "delete_category"
                         /\ \E i \in DOMAIN MenuItems :
                               MenuItems[i].category_id = last'.id
            idInUse   == /\ last'.op = "delete_menu_item_by_id"
                         /\ \E l \in OrderItems : l.item_id = last'.id
            nameInUse == /\ last'.op = "delete_menu_item_by_name"
                         /\ \E i \in DOMAIN MenuItems, l \in OrderItems :
                               MenuItems[i].name = last'.arg /\ l.item_id = i
        IN  /\ catInUse => last'.res = "CATEGORY_IN_USE"
            /\ (idInUse \/ nameInUse) => last'.res = "ITEM_IN_USE"
            /\ (catInUse \/ idInUse \/ nameInUse)
               => UNCHANGED << MenuCategories, MenuItems, OrderItems,
                               committedOrderItems >> ]_vars

\* delete_category was refused for a category other than General that holds
\* an item, while an order line references an item
C13_Witness ==
    /\ last.op = "delete_category"
    /\ last.res = "CATEGORY_IN_USE"
    /\ last.id # 1
    /\ \E i \in DOMAIN MenuItems : MenuItems[i].category_id = last.id
    /\ OrderItems # {}

\* C14: create_order called while no current user is set fails with the
\* precondition failure and writes nothing: Orders and OrderItems, read and
\* committed, and the order counter stay as they were.
C14_CreateOrderNeedsCurrentUser ==
    [][ (last'.op = "create_order" /\ current_user_id = NoUser)
        => /\ last'.res = "NO_CURRENT_USER"
           /\ UNCHANGED << Orders, OrderItems, committedOrders,
                           committedOrderItems, order_seq >> ]_vars

\* create_order was refused for want of a current user although the menu
\* holds an item the order could have referenced
C14_Witness ==
    /\ last.op = "create_order"
    /\ last.res = "NO_CURRENT_USER"
    /\ current_user_id = NoUser
    /\ MenuItems # EmptyFn

\* C15: a successful create_order leaves an order, read and committed, whose
\* status is RECEIVED, whose owner is the user that was current at the call,
\* and each of whose lines carries the price its item had in MenuItems when
\* the call was made.
C15_CreatedOrderContents ==
    [][ (last'.op = "create_order" /\ last'.res = "OK")
        => LET o == last'.id
               Good(orders, lines) ==
                   /\ o \in DOMAIN orders
                   /\ orders[o].status_code = "RECEIVED"
                   /\ orders[o].user_id = current_user_id
                   /\ \A l \in LinesOf(lines, o) :
                         /\ l.item_id \in DOMAIN MenuItems
                         /\ l.price_at_order = MenuItems[l.item_id].price
           IN  /\ o \notin DOMAIN Orders
               /\ Good(Orders', OrderItems')
               /\ Good(committedOrders', committedOrderItems') ]_vars

\* an order of two lines placed by the second account, its two items standing
\* at different prices when it was placed
C15_Witness ==
    /\ last.op = "create_order"
    /\ last.res = "OK"
    /\ Cardinality(LinesOf(OrderItems, last.id)) = 2
    /\ Orders[last.id].user_id = 2
    /\ \E l1, l2 \in LinesOf(OrderItems, last.id) :
          l1.price_at_order # l2.price_at_order

\* C16: every durable order line has quantity > 0, and after create_order or
\* replace_order_items has been refused for a line with quantity <= 0 the
\* store stays as it was before the call: the operation that follows
\* publishes no Orders row of the refused create_order, and (unless it is
\* itself a replace) leaves the order's durable lines as they were.
C16_NonPositiveQuantityRejected ==
    /\ [](\A l \in committedOrderItems : l.quantity > 0)
    /\ [][ ( /\ last.op \in {"create_order", "replace_order_items"}
             /\ last.res = "CHECK_QUANTITY"
             /\ last'.op # "replace_order_items" )
           => /\ last.op = "create_order" => last.id \notin DOMAIN committedOrders'
              /\ LinesOf(committedOrderItems', last.id)
                    = LinesOf(committedOrderItems, last.id) ]_vars

\* C17: add_menu_item, and update_menu_item on an existing item, given a
\* negative price fail and leave MenuItems as it was, and no stored price is
\* ever negative.
C17_NegativePriceRejected ==
    /\ [](\A i \in DOMAIN MenuItems : MenuItems[i].price >= 0)
    /\ [][ ( /\ \/ last'.op = "add_menu_item"
                \/ last'.op = "update_menu_item" /\ last'.id \in DOMAIN MenuItems
             /\ last'.arg < 0 )
           => Failed(last'.res) /\ MenuItems' = MenuItems ]_vars

\* C18: add_category with a name that a category already has fails with
\* CATEGORY_EXISTS and leaves MenuCategories as it was, and in every state no
\* two categories share a name.
C18_CategoryNamesUnique ==
    /\ [](\A c1, c2 \in DOMAIN MenuCategories :
             MenuCategories[c1] = MenuCategories[c2] => c1 = c2)
    /\ [][ ( /\ last'.op = "add_category"
             /\ \E c \in DOMAIN MenuCategories : MenuCategories[c] = last'.arg )
           => /\ last'.res = "CATEGORY_EXISTS"
              /\ UNCHANGED << MenuCategories, cat_seq >> ]_vars

\* a second General was refused after the seeded General had been deleted and
\* a category of that name created again
C18_Witness ==
    /\ last.op = "add_category"
    /\ last.res = "CATEGORY_EXISTS"
    /\ last.arg = "General"
    /\ 1 \notin DOMAIN MenuCategories

\* C19: add_menu_item with a name that an item already has, and
\* update_menu_item giving an existing item the name of another item, fail
\* with NAME_TAKEN and leave MenuItems as it was (the price being one the
\* column accepts); in every state no two items share a name.
C19_ItemNamesUnique ==
    /\ [](\A i, j \in DOMAIN MenuItems :
             MenuItems[i].name = MenuItems[j].name => i = j)
    /\ [][ LET dupAdd == /\ last'.op = "add_menu_item"
                         /\ \E i \in DOMAIN MenuItems :
                               MenuItems[i].name = last'.name
               dupRename == /\ last'.op = "update_menu_item"
                            /\ last'.id \in DOMAIN MenuItems
                            /\ \E i \in DOMAIN MenuItems :
                                  i # last'.id /\ MenuItems[i].name = last'.name
           IN  ((dupAdd \/ dupRename) /\ ToDecimal(last'.arg) >= 0)
               => /\ last'.res = "NAME_TAKEN"
                  /\ UNCHANGED << MenuItems, item_seq >> ]_vars

\* update_menu_item was refused the renaming of item 2 to the name of item 1
C19_Witness ==
    /\ last.op = "update_menu_item"
    /\ last.res = "NAME_TAKEN"
    /\ last.id = 2
    /\ {1, 2} \subseteq DOMAIN MenuItems
    /\ MenuItems[1].name = last.name

\* C20: authenticate_user(handle, secret) returns the account exactly when
\* the handle exists and the secret is the one most recently set for it: a
\* handle that no account has gets None; right after a successful create_user
\* or change_user_password the account's handle authenticates with the secret
\* just set (returning that account) and with no other secret; no other step
\* changes what authenticate_user returns, but for the startup that seeds the
\* admin account.
C20_AuthenticateExactlyCurrentSecret ==
    /\ [](\A n \in Usernames, s \in AuthSecrets :
             (~\E u \in DOMAIN Users : Users[u].username = n)
             => authenticate_user(n, s) = NoAccount)
    /\ [][ \A pw \in AuthSecrets :
             /\ \A n \in Usernames :
                   ( /\ last'.op = "create_user" /\ last'.res = "OK"
                     /\ last'.name = n /\ last'.secret = pw )
                   => \A s \in AuthSecrets :
                         authenticate_user(n, s)'
                            = IF s = pw THEN << last'.id, n, last'.arg >>
                              ELSE NoAccount
             /\ \A u \in DOMAIN Users :
                   ( /\ last'.op = "change_user_password" /\ last'.res = "OK"
                     /\ last'.id = u /\ last'.secret = pw )
                   => \A s \in AuthSecrets :
                         authenticate_user(Users[u].username, s)'
                            = IF s = pw
                              THEN << u, Users[u].username, Users[u].role >>
                              ELSE NoAccount
             /\ ~( /\ last'.op \in {"create_user", "change_user_password"}
                   /\ last'.res = "OK" )
                => \A n \in Usernames, s \in AuthSecrets :
                      (last'.op = "startup" /\ n = "admin" /\ AdminIds(Users) = {})
                      \/ authenticate_user(n, s)' = authenticate_user(n, s) ]_vars

C22_AdminCodeChange ==
    [][ \A c \in CodeInputs :
          (last'.op = "change_admin_access_code" /\ last'.arg = c)
          => /\ last'.name # "admin"
                => last'.res = "PermissionError" /\ AppSettings' = AppSettings
             /\ last'.name = "admin"
                => /\ last'.res = "OK"
                   /\ verify_admin_access(c)'
                   /\ \A old \in CodeInputs \cup BootCodes :
                         (old # c /\ verify_admin_access(old))
                         => ~verify_admin_access(old)'
                   /\ \A k \in DOMAIN AppSettings \ {"admin_access_code_hash"} :
                         AppSettings'[k] = AppSettings[k] ]_vars

\* C24: a startup on an empty store seeds the starter categories Mains, Drinks
\* and Desserts in addition to General.
C24_StarterCategoriesSeeded ==
    [][ (/\ last'.op = "startup"
         /\ last'.res = "OK"
         /\ Users = << >>
         /\ MenuCategories = << >>
         /\ AppSettings = << >>)
        => \A n \in {"General", "Mains", "Drinks", "Desserts"} :
              HasCategoryNamed(MenuCategories', n) ]_vars

Times == 0 .. MaxTime

StatusFilters ==
    {NoStatuses} \cup
    {StatusList(c) : c \in {{}, {"IN_PROGRESS", "CANCELED"}}}

NextReport ==
    \/ Startup(DefaultEnv)
    \/ set_current_user(1)
    \/ add_menu_item("Margherita", 30, 1, TRUE)
    \/ Tick
    \/ \E its \in OneLine \cup {<< >>} : create_order(its, "TAKEAWAY", None)
    \/ \E o \in OrderIds, t \in {"IN_PROGRESS", "CANCELED"} :
          update_order_status(o, t)
    \/ \E a \in Times, b \in Times, sts \in StatusFilters :
          report_orders(a, b, sts)

SpecReport == Init /\ [][NextReport]_vars

\* C23: report_orders(start, end, statuses) returns exactly the orders created
\* in the closed period [start, end] whose status is in the given set when one
\* is given, each with the total of its line snapshots, an empty result when
\* nothing matches, and changes no stored state.
C23_ReportOrders ==
    [][ last'.op = "report_orders"
        => /\ last'.res = "OK"
           /\ \A o \in DOMAIN Orders :
                 LET inPeriod == /\ last'.start_dt <= Orders[o].order_date
                                 /\ Orders[o].order_date <= last'.end_dt
                     inSet == last'.statuses.given
                              => Orders[o].status_code \in last'.statuses.list
                 IN  IF inPeriod /\ inSet
                     THEN \E r \in last'.arg :
                            /\ r.order_id = o
                            /\ r.status_code = Orders[o].status_code
                            /\ r.total = C5_SumByItem(OrderItems, o, item_seq)
                     ELSE \A r \in last'.arg : r.order_id # o
           /\ \A r \in last'.arg : r.order_id \in DOMAIN Orders
           /\ Cardinality(last'.arg) <= Cardinality(DOMAIN Orders)
           /\ UNCHANGED << Users, MenuCategories, MenuItems, OrderStatusRef,
                           AppSettings, Orders, OrderItems, committedOrders,
                           committedOrderItems, order_seq, item_seq, cat_seq,
                           current_user_id >> ]_vars

\* C23, amended: the status restriction applies when a non-empty list of
\* statuses is given; with None or an empty list every order of the closed
\* period is returned.
C23_ReportOrdersNonEmptyFilter ==
    [][ last'.op = "report_orders"
        => /\ last'.res = "OK"
           /\ \A o \in DOMAIN Orders :
                 LET inPeriod == /\ last'.start_dt <= Orders[o].order_date
                                 /\ Orders[o].order_date <= last'.end_dt
                     inSet == (last'.statuses.given /\ last'.statuses.list # {})
                              => Orders[o].status_code \in last'.statuses.list
                 IN  IF inPeriod /\ inSet
                     THEN \E r \in last'.arg :
                            /\ r.order_id = o
                            /\ r.status_code = Orders[o].status_code
                            /\ r.total = C5_SumByItem(OrderItems, o, item_seq)
                     ELSE \A r \in last'.arg : r.order_id # o
           /\ \A r \in last'.arg : r.order_id \in DOMAIN Orders
           /\ Cardinality(last'.arg) <= Cardinality(DOMAIN Orders)
           /\ UNCHANGED << Users, MenuCategories, MenuItems, OrderStatusRef,
                           AppSettings, Orders, OrderItems, committedOrders,
                           committedOrderItems, order_seq, item_seq, cat_seq,
                           current_user_id >> ]_vars

\* a report over a period that ends in the very second an order with a line
\* was created, filtered by the status the order has reached
C23_Witness ==
    /\ last.op = "report_orders"
    /\ last.statuses = StatusList({"IN_PROGRESS", "CANCELED"})
    /\ \E r \in last.arg :
          /\ r.total > 0
          /\ r.order_date = last.end_dt
          /\ r.order_date > last.start_dt
          /\ r.status_code = "CANCELED"

\* a report whose period or status list no order matches
C23_WitnessEmpty ==
    /\ last.op = "report_orders"
    /\ last.arg = {}
    /\ Orders # << >>

NextRace ==
    \/ \E c \in Connections : BeginStartup(c)
    \/ \E c \in Connections : StartupSelect(c, DefaultEnv)
    \/ \E c \in Connections : StartupInsert(c, DefaultEnv)

SpecRace == Init /\ [][NextRace]_vars

\* C25: when two processes start up on an empty store at the same time and both
\* find a seed row missing before either inserts it, the loser's duplicate-key
\* failure is swallowed: neither startup fails, and the store holds each seed
\* row exactly once.
C25_ConcurrentStartupsComplete ==
    /\ \A c \in Connections : sess[c].pc # "failed"
    /\ Cardinality({c \in DOMAIN MenuCategories : MenuCategories[c] = "General"}) <= 1
    /\ Cardinality({u \in DOMAIN Users : Users[u].username = "admin"}) <= 1
    /\ (\A c \in Connections : sess[c].pc = "done") => C12_Initialised

NextSessions ==
    \/ Startup(DefaultEnv)
    \/ set_current_user(1)
    \/ create_order(<< >>, "TAKEAWAY", None)
    \/ \E c \in Connections, o \in OrderIds, t \in StatusRows :
          StatusSelect(c, o, t)
    \/ \E c \in Connections, o \in OrderIds : CancelSelect(c, o, 1)
    \/ \E c \in Connections : StatusUpdate(c)

SpecSessions == Init /\ [][NextSessions]_vars

\* C26: when two sessions run update_order_status and cancel_order_by_user on
\* the same order at the same time, every committed change of status is a
\* transition that STATUS_FLOW allows from the status committed just before
\* it; a COMPLETED order never becomes CANCELED, nor a CANCELED one COMPLETED.
C26_CommittedChangesAreLegal ==
    [][ \A o \in DOMAIN committedOrders :
          committedOrders'[o].status_code # committedOrders[o].status_code
          => committedOrders'[o].status_code
                \in STATUS_FLOW[committedOrders[o].status_code] ]_vars

\* one line, the same item twice, and two different items
LineChoices ==
    OneLine \cup { << [item_id |-> 1, qty |-> 2], [item_id |-> i, qty |-> 2] >> :
                     i \in {1, 2} }

NextLines ==
    \/ Startup(DefaultEnv)
    \/ set_current_user(1)
    \/ \E n \in ItemNames : add_menu_item(n, 30, 1, TRUE)
    \/ \E i \in ItemIds : update_menu_item(i, "Margherita", 10, 1, TRUE)
    \/ \E i \in ItemIds : delete_menu_item_by_id(i)
    \/ \E its \in LineChoices : create_order(its, None, None)
    \/ \E o \in OrderIds, its \in LineChoices : replace_order_items(o, its, 1)
    \/ \E o \in OrderIds, t \in StatusRows : update_order_status(o, t)
    \/ \E o \in OrderIds : cancel_order_by_user(o, 1)

SpecLines == Init /\ [][NextLines]_vars

\* C27: once an order's status is no longer RECEIVED, no operation of the
\* session (replacing its lines, status changes, edits and deletions in the
\* catalog) changes its lines (item, quantity, price_at_order) or its total,
\* neither as the connection reads them nor as committed.
C27_LinesFrozenAfterReceived ==
    [][ /\ \A o \in DOMAIN Orders :
             Orders[o].status_code # "RECEIVED"
             => /\ o \in DOMAIN Orders'
                /\ Orders'[o].status_code # "RECEIVED"
                /\ LinesOf(OrderItems', o) = LinesOf(OrderItems, o)
                /\ get_orders_total(o)' = get_orders_total(o)
        /\ \A o \in DOMAIN committedOrders :
             committedOrders[o].status_code # "RECEIVED"
             => /\ o \in DOMAIN committedOrders'
                /\ LinesOf(committedOrderItems', o) = LinesOf(committedOrderItems, o)
      ]_vars

\* an order with a line that has left RECEIVED was the target of a refused
\* replace_order_items, and the price of its item has moved since
C27_Witness ==
    /\ last.op = "replace_order_items"
    /\ last.id \in DOMAIN Orders
    /\ Orders[last.id].status_code \notin {"RECEIVED", "CANCELED"}
    /\ \E l \in LinesOf(OrderItems, last.id) :
          /\ l.item_id \in DOMAIN MenuItems
          /\ MenuItems[l.item_id].price # l.price_at_order

\* C28: no order ever has two lines for the same item, and after create_order
\* or replace_order_items has failed for a list that names an item twice the
\* store stays as it was before the call: the operation that follows
\* publishes no Orders row of the failed create_order, and (unless it is
\* itself a replace) leaves the order's durable lines as they were.
C28_DuplicateItemRejected ==
    /\ [](\A a \in OrderItems \cup committedOrderItems :
            \A b \in OrderItems \cup committedOrderItems :
               (a.order_id = b.order_id /\ a.item_id = b.item_id)
               => a.quantity = b.quantity)
    /\ [][ ( /\ last.op \in {"create_order", "replace_order_items"}
             /\ last.res = "DUPLICATE_LINE"
             /\ last'.op # "replace_order_items" )
           => /\ last.op = "create_order" => last.id \notin DOMAIN committedOrders'
              /\ LinesOf(committedOrderItems', last.id)
                    = LinesOf(committedOrderItems, last.id) ]_vars

C29_WitnessUpdate ==
    /\ last.op = "update_order_status"
    /\ last.res = "OK"
    /\ LinesOf(OrderItems, last.id) # {}

\* C30: delete_category, delete_menu_item_by_id and update_menu_item called
\* with an id that no row has, and delete_menu_item_by_name called with a name
\* that no item has, return without an error and leave the categories and
\* the menu as they were.
C30_MissingTargetIsNoOp ==
    [][ ( \/ /\ last'.op = "delete_category"
              /\ last'.id \notin DOMAIN MenuCategories
           \/ /\ last'.op \in {"delete_menu_item_by_id", "update_menu_item"}
              /\ last'.id \notin DOMAIN MenuItems
           \/ /\ last'.op = "delete_menu_item_by_name"
              /\ \A i \in DOMAIN MenuItems : MenuItems[i].name # last'.arg )
        => /\ last'.res = "OK"
           /\ UNCHANGED << MenuCategories, MenuItems, cat_seq, item_seq >> ]_vars

\* update_menu_item was called for an id that no item has, with the name of
\* an existing item, while the menu was not empty
C30_Witness ==
    /\ last.op = "update_menu_item"
    /\ last.id \notin DOMAIN MenuItems
    /\ \E i \in DOMAIN MenuItems : MenuItems[i].name = last.name

\* delete_category was called for an id that no category has
C30_WitnessCategory ==
    /\ last.op = "delete_category"
    /\ last.id \notin DOMAIN MenuCategories
    /\ MenuCategories # << >>

\* a deletion of a menu item named an id or a name that no item has
C30_WitnessDelete ==
    /\ MenuItems # << >>
    /\ \/ last.op = "delete_menu_item_by_id" /\ last.id \notin DOMAIN MenuItems
       \/ /\ last.op = "delete_menu_item_by_name"
          /\ \A i \in DOMAIN MenuItems : MenuItems[i].name # last.arg

====
